---- MODULE Spec2Model ----
(***************************************************************************)
(* ClawTutor: the OpenCode engine's auth controller (ensureAuth,           *)
(* clearAuth, nextAuthMenuAction), the workspace root resolver, the        *)
(* home-directory guard and the background initializer of the CLI entry.   *)
(*                                                                         *)
(* Paths are sequences of segments, environment variables are paths with   *)
(* two distinguished values (not set, empty string), the filesystem is a   *)
(* set of directories plus a map from file paths to file contents.         *)
(***************************************************************************)
EXTENDS Integers, Sequences, FiniteSets, TLC

VARIABLES
  env,            \* process.env of the auth controller (record of paths)
  installed,      \* the engine binary resolves on PATH (Bun.which)
  dirs,           \* existing directories
  files,          \* existing files: path -> content
  pc,             \* position inside ensureAuth ("idle" between calls)
  force,          \* forceLogin argument of the running ensureAuth
  result,         \* outcome of the last ensureAuth
  spawnAttempts,  \* Bun.spawn calls made by the last ensureAuth
  spawned,        \* subprocesses launched by the last ensureAuth
  exitCode,       \* exit code of the login subprocess
  credAtCall,     \* the credential file held the engine's key at call time
  toolLeft,       \* content of the credential file when the subprocess exited
  rmFailed,       \* targets whose removal failed in the last clearAuth
  menu,           \* last value returned by nextAuthMenuAction
  calls,          \* ensureAuth calls made in a row (capped at MaxCalls)
  lastOp,         \* last operation that completed
  cmd,            \* last auth command handler: what ran, for whom, how it ended
  cwdEnv,         \* CLAWTUTOR_CWD as inherited from the parent environment
  procEnvCwd,     \* process.env.CLAWTUTOR_CWD inside the running process
  procCwd,        \* process.cwd()
  args,           \* process.argv.slice(2)
  bootPc,         \* position of the main flow
  exitStatus,     \* process exit status / process.exitCode
  tuiStarted,     \* startTUI() has been called
  bgPc,           \* position of initializeInBackground
  bgCwd,          \* cwd handed to initializeInBackground
  cmRoot,         \* workspace root resolved by initializeInBackground
  rootAbsent,     \* existsSync(cmRoot) was false when the initializer started
  bootstraps,     \* ensureWorkspaceStructure calls made in this run
  bootstrapped,   \* runs whose bootstrap completed
  syncIdx,        \* index of the engine the sync loop is at
  syncing,        \* engines whose syncConfig is in progress
  synced,         \* engines whose syncConfig was invoked, in order
  logged,         \* '[Background Init Error]' reports of this run
  syncThrew,      \* index of the engine whose syncConfig threw, 0 if none
  runs            \* processes started so far

authVars == <<env, installed, dirs, files, pc, force, result, spawnAttempts,
              spawned, exitCode, credAtCall, toolLeft, rmFailed, menu, calls,
              lastOp, cmd>>

bootVars == <<cwdEnv, procEnvCwd, procCwd, args, bootPc, exitStatus, tuiStarted,
              bgPc, bgCwd, cmRoot, rootAbsent, bootstraps, bootstrapped,
              syncIdx, syncing, synced, logged, syncThrew,
                 runs>>

authRest == <<env, installed, files, pc, force, result, spawnAttempts, spawned,
              exitCode, credAtCall, toolLeft, rmFailed, menu, calls, lastOp,
              cmd>>

vars == <<authVars, bootVars>>

----------------------------------------------------------------------------
(* Paths and environment values *)

Unset == <<"<unset>">>
EmptyStr == <<>>
HomeDir == <<"home">>

IsSet(v) == v # Unset /\ v # EmptyStr

IsPrefix(p, q) == Len(p) <= Len(q) /\ SubSeq(q, 1, Len(p)) = p

Prefixes(p) == {SubSeq(p, 1, n) : n \in 1..Len(p)}

Parent(p) == SubSeq(p, 1, Len(p) - 1)

join(p, seg) == Append(p, seg)

expandHomeDir(p) ==
  IF Len(p) > 0 /\ Head(p) = "~" THEN HomeDir \o Tail(p) ELSE p

----------------------------------------------------------------------------
(* JSON file contents *)

ProviderKeys == {"opencode", "anthropic"}

Absent == [kind |-> "absent", keys |-> {}, num |-> 0]
Malformed == [kind |-> "malformed", keys |-> {}, num |-> 0]
JNull == [kind |-> "null", keys |-> {}, num |-> 0]
JNum(n) == [kind |-> "number", keys |-> {}, num |-> n]
JArr == [kind |-> "array", keys |-> {}, num |-> 0]
JObj(ks) == [kind |-> "object", keys |-> ks, num |-> 0]

EmptyObject == JObj({})

Contents ==
  {Malformed, JNull, JNum(1), JArr} \cup {JObj(ks) : ks \in SUBSET ProviderKeys}

ParseFails(c) == c.kind = "malformed"

JsTruthy(c) ==
  CASE c.kind = "null" -> FALSE
    [] c.kind = "number" -> c.num # 0
    [] OTHER -> TRUE

JsTypeofObject(c) == c.kind \in {"null", "array", "object"}

JsIn(key, c) == key \in c.keys

fileAt(p) == IF p \in DOMAIN files THEN files[p] ELSE Absent

----------------------------------------------------------------------------
(* Directory resolution *)

resolveOpenCodeHome ==
  IF IsSet(env.OPENCODE_HOME) THEN expandHomeDir(env.OPENCODE_HOME) ELSE Unset

resolveOpenCodeDataDir ==
  IF resolveOpenCodeHome # Unset
  THEN join(resolveOpenCodeHome, "data")
  ELSE join(IF IsSet(env.XDG_DATA_HOME)
            THEN expandHomeDir(env.XDG_DATA_HOME)
            ELSE HomeDir \o <<".local", "share">>, "opencode")

resolveOpenCodeConfigDir ==
  IF resolveOpenCodeHome # Unset
  THEN join(resolveOpenCodeHome, "config")
  ELSE join(IF IsSet(env.XDG_CONFIG_HOME)
            THEN expandHomeDir(env.XDG_CONFIG_HOME)
            ELSE HomeDir \o <<".config">>, "opencode")

resolveOpenCodeCacheDir ==
  IF resolveOpenCodeHome # Unset
  THEN join(resolveOpenCodeHome, "cache")
  ELSE join(IF IsSet(env.XDG_CACHE_HOME)
            THEN expandHomeDir(env.XDG_CACHE_HOME)
            ELSE HomeDir \o <<".cache">>, "opencode")

authPath == join(resolveOpenCodeDataDir, "auth.json")

----------------------------------------------------------------------------
(* Probes *)

isCliInstalled == installed

isAuthenticated == isCliInstalled

\* Variant: any parseable credential file counts, whatever its keys.
hasOpenCodeCredential_anyFile(providerId) ==
  LET raw == fileAt(authPath) IN
    IF raw = Absent \/ ParseFails(raw) THEN FALSE ELSE TRUE

hasOpenCodeCredential(providerId) ==
  LET raw == fileAt(authPath) IN
    IF raw = Absent \/ ParseFails(raw)
    THEN FALSE
    ELSE JsTruthy(raw) /\ JsTypeofObject(raw) /\ JsIn(providerId, raw)

nextAuthMenuActionValue ==
  IF ~isAuthenticated THEN "login"
  ELSE IF hasOpenCodeCredential("opencode") THEN "logout" ELSE "login"

----------------------------------------------------------------------------
(* Filesystem primitives *)

mkdirp(p) == dirs \cup Prefixes(p)

RmOutcomes == {"ok", "fail", "partial"}

\* rm(target, {recursive: true, force: true}) on the filesystem fs = [d, f].
\* "ok" removes the tree (a missing target is not an error), "fail" throws
\* before anything is removed, "partial" throws after the files are gone.
rm(fs, target, outcome) ==
  CASE outcome = "ok" ->
         [d |-> {x \in fs.d : ~IsPrefix(target, x)},
          f |-> [x \in {y \in DOMAIN fs.f : ~IsPrefix(target, y)} |-> fs.f[x]]]
    [] outcome = "partial" ->
         [d |-> fs.d,
          f |-> [x \in {y \in DOMAIN fs.f : ~IsPrefix(target, y)} |-> fs.f[x]]]
    [] OTHER -> fs

\* writeFile(p, c): fails with ENOENT when the parent directory is missing.
canWriteFile(p) == Parent(p) \in dirs

writeFile(p, c) == [x \in DOMAIN files \cup {p} |-> IF x = p THEN c ELSE files[x]]

unlink(p) == [x \in DOMAIN files \ {p} |-> files[x]]

----------------------------------------------------------------------------
(* Bounds *)

MaxExitCode == 1
MaxCalls == 2

----------------------------------------------------------------------------
(* The login subprocess: what `opencode auth login` may leave in auth.json *)

ToolKeeps == [kind |-> "keep", keys |-> {}, num |-> 0]
ToolRemoves == [kind |-> "remove", keys |-> {}, num |-> 0]

ToolEffects == {ToolKeeps, ToolRemoves} \cup {JObj(ks) : ks \in SUBSET ProviderKeys}

toolApply(eff) ==
  CASE eff = ToolKeeps -> files
    [] eff = ToolRemoves -> unlink(authPath)
    [] OTHER -> writeFile(authPath, eff)

SpawnOutcomes == {"ok", "notfound", "other"}

\* The credential file, read directly: a JSON object holding the engine's key.
EngineKeyInFile ==
  /\ authPath \in DOMAIN files
  /\ files[authPath].kind = "object"
  /\ "opencode" \in files[authPath].keys

----------------------------------------------------------------------------
(* Engine registry *)

\* The registry, in registration order; sync tells whether the descriptor
\* exposes syncConfig.
Engines ==
  <<[id |-> "opencode", sync |-> TRUE],
    [id |-> "claude", sync |-> FALSE],
    [id |-> "codex", sync |-> TRUE]>>

\* registry.get(id) finds a descriptor.
registryHas(id) == \E i \in 1..Len(Engines) : Engines[i].id = id

\* No command handler is running or has run since the last direct call.
NoCommand == [op |-> "none", provider |-> "none", outcome |-> "none"]

\* The record of the last ensureAuth is dropped when another operation runs.
forgetEnsureAuth ==
  /\ force' = FALSE
  /\ result' = "none"
  /\ spawnAttempts' = 0
  /\ spawned' = 0
  /\ exitCode' = 0
  /\ toolLeft' = Absent
  /\ calls' = 0

----------------------------------------------------------------------------
(* ensureAuth(forceLogin) *)

\* Variant: the early return ignores forceLogin.
EnsureAuthBegin_ignoresForce(f) ==
  /\ pc = "idle"
  /\ force' = f
  /\ credAtCall' = EngineKeyInFile
  /\ spawnAttempts' = 0
  /\ spawned' = 0
  /\ exitCode' = 0
  /\ toolLeft' = Absent
  /\ lastOp' = "ensureAuth"
  /\ calls' = IF calls < MaxCalls THEN calls + 1 ELSE calls
  /\ rmFailed' = {}
  /\ menu' = "none"
  /\ IF hasOpenCodeCredential("opencode")
     THEN /\ result' = "ok"
          /\ pc' = "idle"
     ELSE /\ result' = "pending"
          /\ pc' = "ea_mkdir"
  /\ UNCHANGED bootVars
  /\ cmd' = NoCommand
  /\ UNCHANGED <<env, installed, dirs, files>>

\* Variant: no early return, the login flow always runs.
EnsureAuthBegin_alwaysLogin(f) ==
  /\ pc = "idle"
  /\ force' = f
  /\ credAtCall' = EngineKeyInFile
  /\ spawnAttempts' = 0
  /\ spawned' = 0
  /\ exitCode' = 0
  /\ toolLeft' = Absent
  /\ lastOp' = "ensureAuth"
  /\ calls' = IF calls < MaxCalls THEN calls + 1 ELSE calls
  /\ rmFailed' = {}
  /\ menu' = "none"
  /\ result' = "pending"
  /\ pc' = "ea_mkdir"
  /\ UNCHANGED bootVars
  /\ cmd' = NoCommand
  /\ UNCHANGED <<env, installed, dirs, files>>

\* lines 88-94: probe, early return unless forced
ensureAuthEntry(f) ==
  /\ pc = "idle"
  /\ force' = f
  /\ credAtCall' = EngineKeyInFile
  /\ spawnAttempts' = 0
  /\ spawned' = 0
  /\ exitCode' = 0
  /\ toolLeft' = Absent
  /\ lastOp' = "ensureAuth"
  /\ calls' = IF calls < MaxCalls THEN calls + 1 ELSE calls
  /\ rmFailed' = {}
  /\ menu' = "none"
  /\ IF ~f /\ hasOpenCodeCredential("opencode")
     THEN /\ result' = "ok"
          /\ pc' = "idle"
     ELSE /\ result' = "pending"
          /\ pc' = "ea_mkdir"
  /\ UNCHANGED bootVars
  /\ UNCHANGED <<env, installed, dirs, files>>

\* ensureAuth(f) called directly on the controller
EnsureAuthBegin(f) ==
  /\ ensureAuthEntry(f)
  /\ cmd' = NoCommand

\* line 97: ensureAuthDirectory(dataDir)
ensureAuthDirectory ==
  /\ pc = "ea_mkdir"
  /\ dirs' = mkdirp(resolveOpenCodeDataDir)
  /\ pc' = "ea_check"
  /\ UNCHANGED bootVars
  /\ UNCHANGED cmd
  /\ UNCHANGED <<env, installed, files, force, result, spawnAttempts, spawned,
                 exitCode, credAtCall, toolLeft, rmFailed, menu, calls, lastOp>>

\* Variant: the install check is skipped, the spawn is always attempted.
EnsureAuthSpawn_noInstallCheck(outcome) ==
  /\ pc = "ea_check"
  /\ spawnAttempts' = spawnAttempts + 1
  /\ CASE outcome = "ok" /\ isCliInstalled ->
            /\ spawned' = spawned + 1
            /\ pc' = "ea_wait"
            /\ UNCHANGED result
       [] outcome = "other" ->
            /\ result' = "SpawnError"
            /\ pc' = "idle"
            /\ UNCHANGED spawned
       [] OTHER ->
            /\ result' = "EngineNotInstalled"
            /\ pc' = "idle"
            /\ UNCHANGED spawned
  /\ UNCHANGED bootVars
  /\ UNCHANGED cmd
  /\ UNCHANGED <<env, installed, dirs, files, force, exitCode, credAtCall,
                 toolLeft, rmFailed, menu, calls, lastOp>>

\* lines 99-137: install check, then Bun.spawn (same tick)
EnsureAuthSpawn(outcome) ==
  /\ pc = "ea_check"
  /\ IF ~isCliInstalled
     THEN /\ result' = "EngineNotInstalled"
          /\ pc' = "idle"
          /\ UNCHANGED <<spawnAttempts, spawned>>
     ELSE /\ spawnAttempts' = spawnAttempts + 1
          /\ CASE outcome = "ok" ->
                    /\ spawned' = spawned + 1
                    /\ pc' = "ea_wait"
                    /\ UNCHANGED result
               [] outcome = "notfound" ->
                    /\ result' = "EngineNotInstalled"
                    /\ pc' = "idle"
                    /\ UNCHANGED spawned
               [] OTHER ->
                    /\ result' = "SpawnError"
                    /\ pc' = "idle"
                    /\ UNCHANGED spawned
  /\ UNCHANGED bootVars
  /\ UNCHANGED cmd
  /\ UNCHANGED <<env, installed, dirs, files, force, exitCode, credAtCall,
                 toolLeft, rmFailed, menu, calls, lastOp>>

\* line 123: await proc.exited; the exit code is not inspected
EnsureAuthExited(code, eff) ==
  /\ pc = "ea_wait"
  /\ files' = toolApply(eff)
  /\ toolLeft' = IF authPath \in DOMAIN files' THEN files'[authPath] ELSE Absent
  /\ exitCode' = code
  /\ pc' = "ea_stat"
  /\ UNCHANGED bootVars
  /\ UNCHANGED cmd
  /\ UNCHANGED <<env, installed, dirs, force, result, spawnAttempts, spawned,
                 credAtCall, rmFailed, menu, calls, lastOp>>

\* Variant: the placeholder is written without the stat check.
EnsureAuthFile_overwrites ==
  /\ pc = "ea_stat"
  /\ files' = writeFile(authPath, EmptyObject)
  /\ result' = "ok"
  /\ pc' = "idle"
  /\ UNCHANGED bootVars
  /\ UNCHANGED cmd
  /\ UNCHANGED <<env, installed, dirs, force, spawnAttempts, spawned, exitCode,
                 credAtCall, toolLeft, rmFailed, menu, calls, lastOp>>

\* lines 139-147: stat(authPath), else writeFile(authPath, '{}')
EnsureAuthFile ==
  /\ pc = "ea_stat"
  /\ IF authPath \in DOMAIN files
     THEN /\ result' = "ok"
          /\ UNCHANGED files
     ELSE IF canWriteFile(authPath)
          THEN /\ files' = writeFile(authPath, EmptyObject)
               /\ result' = "ok"
          ELSE /\ result' = "WriteError"
               /\ UNCHANGED files
  /\ pc' = "idle"
  /\ UNCHANGED bootVars
  /\ UNCHANGED cmd
  /\ UNCHANGED <<env, installed, dirs, force, spawnAttempts, spawned, exitCode,
                 credAtCall, toolLeft, rmFailed, menu, calls, lastOp>>

----------------------------------------------------------------------------
(* clearAuth *)

\* Variant: without the override only config and cache are removed.
clearAuthTargets_noData ==
  IF resolveOpenCodeHome # Unset
  THEN <<resolveOpenCodeHome>>
  ELSE <<resolveOpenCodeConfigDir, resolveOpenCodeCacheDir>>

clearAuthTargets ==
  IF resolveOpenCodeHome # Unset
  THEN <<resolveOpenCodeHome>>
  ELSE <<resolveOpenCodeConfigDir, resolveOpenCodeCacheDir, resolveOpenCodeDataDir>>

RECURSIVE rmAll(_, _, _, _)
rmAll(fs, targets, outcomes, i) ==
  IF i > Len(targets) THEN fs
  ELSE rmAll(rm(fs, targets[i], outcomes[i]), targets, outcomes, i + 1)

\* lines 150-170
clearAuthBody(outcomes) ==
  /\ pc = "idle"
  /\ LET fs == rmAll([d |-> dirs, f |-> files], clearAuthTargets, outcomes, 1) IN
       /\ dirs' = fs.d
       /\ files' = fs.f
  /\ rmFailed' = {clearAuthTargets[i] : i \in {j \in 1..Len(clearAuthTargets) : outcomes[j] # "ok"}}
  /\ lastOp' = "clearAuth"
  /\ credAtCall' = EngineKeyInFile
  /\ menu' = "none"
  /\ forgetEnsureAuth
  /\ UNCHANGED bootVars
  /\ UNCHANGED <<env, installed, pc>>

\* clearAuth() called directly on the controller
clearAuth(outcomes) ==
  /\ clearAuthBody(outcomes)
  /\ cmd' = NoCommand

----------------------------------------------------------------------------
(* nextAuthMenuAction *)

nextAuthMenuAction ==
  /\ pc = "idle"
  /\ menu' = nextAuthMenuActionValue
  /\ lastOp' = "menu"
  /\ rmFailed' = {}
  /\ credAtCall' = EngineKeyInFile
  /\ forgetEnsureAuth
  /\ UNCHANGED bootVars
  /\ cmd' = NoCommand
  /\ UNCHANGED <<env, installed, dirs, files, pc>>

----------------------------------------------------------------------------
(* The auth login / auth logout command handlers (auth.command.ts).        *)
(* Only the OpenCode controller is in the source, so the handlers are run  *)
(* for its id and for an id the registry does not hold.                    *)

ProviderIds == {"opencode", "nosuch"}

ConfirmAnswers == {"cancel", "no", "yes"}

\* A handler ends without calling the controller.
handlerEnds(op, id, outcome) ==
  /\ cmd' = [op |-> op, provider |-> id, outcome |-> outcome]
  /\ lastOp' = op
  /\ rmFailed' = {}
  /\ credAtCall' = EngineKeyInFile
  /\ forgetEnsureAuth
  /\ UNCHANGED bootVars
  /\ UNCHANGED <<env, installed, dirs, files, pc>>

\* lines 29-98: handleLogin(providerId); answer is the reply to the
\* 'add another provider?' prompt
handleLogin(id, answer) ==
  /\ pc = "idle"
  /\ IF ~registryHas(id)
     THEN /\ handlerEnds("handleLogin", id, "threw")
          /\ menu' = "none"
     ELSE IF nextAuthMenuActionValue = "logout"
          THEN IF id = "opencode" /\ answer = "yes"
               THEN /\ ensureAuthEntry(TRUE)
                    /\ cmd' = [op |-> "handleLogin", provider |-> id,
                               outcome |-> "ensureAuth"]
               ELSE /\ handlerEnds("handleLogin", id, "returned")
                    /\ menu' = "logout"
          ELSE /\ ensureAuthEntry(FALSE)
               /\ cmd' = [op |-> "handleLogin", provider |-> id,
                          outcome |-> "ensureAuth"]

\* lines 100-108: handleLogout(providerId)
handleLogout(id, outcomes) ==
  /\ pc = "idle"
  /\ IF ~registryHas(id)
     THEN /\ handlerEnds("handleLogout", id, "threw")
          /\ menu' = "none"
     ELSE /\ clearAuthBody(outcomes)
          /\ cmd' = [op |-> "handleLogout", provider |-> id,
                     outcome |-> "returned"]

\* How the last command handler ended: "threw" when it or the controller
\* call it awaited threw, "returned" when it returned, "running" meanwhile.
commandOutcome ==
  IF cmd.outcome # "ensureAuth" THEN cmd.outcome
  ELSE IF pc # "idle" THEN "running"
  ELSE IF result = "ok" THEN "returned" ELSE "threw"

----------------------------------------------------------------------------
(* Out-of-band changes between calls: the user installs or removes the     *)
(* binary, or runs the wrapped CLI directly.                               *)

ExtBinary ==
  /\ pc = "idle"
  /\ installed' = ~installed
  /\ lastOp' = "ext"
  /\ rmFailed' = {}
  /\ menu' = "none"
  /\ credAtCall' = FALSE
  /\ forgetEnsureAuth
  /\ UNCHANGED bootVars
  /\ cmd' = NoCommand
  /\ UNCHANGED <<env, dirs, files, pc>>

ExtAuthFile(c) ==
  /\ pc = "idle"
  /\ fileAt(authPath) # c
  /\ dirs' = mkdirp(resolveOpenCodeDataDir)
  /\ files' = writeFile(authPath, c)
  /\ lastOp' = "ext"
  /\ rmFailed' = {}
  /\ menu' = "none"
  /\ credAtCall' = FALSE
  /\ forgetEnsureAuth
  /\ UNCHANGED bootVars
  /\ cmd' = NoCommand
  /\ UNCHANGED <<env, installed, pc>>

----------------------------------------------------------------------------
(* Specification of the auth controller *)

HomeValues == {Unset, EmptyStr, <<"~", "oc">>}
XdgDataValues == {Unset, <<"xdg", "data">>}
XdgConfigValues == {Unset}
XdgCacheValues == {Unset}

EnvValues ==
  [OPENCODE_HOME : HomeValues, XDG_DATA_HOME : XdgDataValues,
   XDG_CONFIG_HOME : XdgConfigValues, XDG_CACHE_HOME : XdgCacheValues]

InitAuth ==
  /\ env \in EnvValues
  /\ installed \in BOOLEAN
  /\ \E ds \in SUBSET {resolveOpenCodeConfigDir, resolveOpenCodeCacheDir, resolveOpenCodeDataDir} :
       /\ dirs = UNION {Prefixes(d) : d \in ds}
       /\ \/ files = <<>>
          \/ /\ resolveOpenCodeDataDir \in ds
             /\ \E c \in Contents : files = [x \in {authPath} |-> c]
  /\ pc = "idle"
  /\ force = FALSE
  /\ result = "none"
  /\ spawnAttempts = 0
  /\ spawned = 0
  /\ exitCode = 0
  /\ credAtCall = FALSE
  /\ toolLeft = Absent
  /\ rmFailed = {}
  /\ menu = "none"
  /\ calls = 0
  /\ lastOp = "none"
  /\ cmd = NoCommand
  /\ cwdEnv = Unset
  /\ procEnvCwd = Unset
  /\ procCwd = <<"proj">>
  /\ args = <<>>
  /\ bootPc = "guard"
  /\ exitStatus = 0
  /\ tuiStarted = FALSE
  /\ bgPc = "none"
  /\ bgCwd = <<>>
  /\ cmRoot = <<>>
  /\ rootAbsent = FALSE
  /\ bootstraps = 0
  /\ bootstrapped = 0
  /\ syncIdx = 0
  /\ syncing = {}
  /\ synced = <<>>
  /\ logged = 0
  /\ syncThrew = 0
  /\ runs = 1

NextAuth ==
  \/ \E f \in BOOLEAN : EnsureAuthBegin(f)
  \/ ensureAuthDirectory
  \/ \E o \in SpawnOutcomes : EnsureAuthSpawn(o)
  \/ \E code \in 0..MaxExitCode, eff \in ToolEffects : EnsureAuthExited(code, eff)
  \/ EnsureAuthFile
  \/ \E os \in [1..Len(clearAuthTargets) -> RmOutcomes] : clearAuth(os)
  \/ nextAuthMenuAction
  \/ \E id \in ProviderIds, a \in ConfirmAnswers : handleLogin(id, a)
  \/ \E id \in ProviderIds, os \in [1..Len(clearAuthTargets) -> RmOutcomes] :
       handleLogout(id, os)
  \/ ExtBinary
  \/ \E c \in Contents : ExtAuthFile(c)

SpecAuth == InitAuth /\ [][NextAuth]_vars

----------------------------------------------------------------------------
(* Properties of the auth controller *)

EnsureAuthDone == lastOp = "ensureAuth" /\ pc = "idle"

\* C1: nextAuthMenuAction returns 'login' whenever the binary is absent and
\* 'logout' exactly when the binary is present and the credential file is a
\* JSON object holding the engine's own key.
C1_MenuAction ==
  lastOp = "menu" =>
    /\ (~installed => menu = "login")
    /\ (menu = "logout" <=> (installed /\ EngineKeyInFile))
    /\ menu \in {"login", "logout"}

C1_Witness == lastOp = "menu" /\ menu = "logout" /\ installed /\ EngineKeyInFile

\* C2: ensureAuth without forceLogin, called while a credential is present,
\* returns success at once and spawns nothing (also on a second call in a row).
C2_NoSpawnWhenCredentialed ==
  (lastOp = "ensureAuth" /\ ~force /\ credAtCall) =>
    /\ pc = "idle"
    /\ result = "ok"
    /\ spawnAttempts = 0
    /\ spawned = 0

C2_Witness ==
  /\ EnsureAuthDone /\ ~force /\ credAtCall
  /\ calls = 2 /\ result = "ok" /\ spawnAttempts = 0

\* C3 as stated: a completed ensureAuth(true) has attempted the subprocess
\* step, whether the binary is present or not.
C3_Original == (EnsureAuthDone /\ force) => spawnAttempts >= 1

\* C3 amended: ensureAuth(true) never takes the early return; with the binary
\* present it attempts the login subprocess exactly once even when a
\* credential exists, with the binary absent it fails with
\* EngineNotInstalled before the subprocess step.
C3_ForceLogin ==
  (EnsureAuthDone /\ force) =>
    IF installed
    THEN spawnAttempts = 1
    ELSE spawnAttempts = 0 /\ result = "EngineNotInstalled"

C3_Witness ==
  EnsureAuthDone /\ force /\ credAtCall /\ installed /\ spawnAttempts = 1

\* C4 as stated: with the binary absent a completed ensureAuth() has failed
\* with EngineNotInstalled and spawned nothing, whatever the credential state.
C4_Original ==
  (EnsureAuthDone /\ ~force /\ ~installed) =>
    (result = "EngineNotInstalled" /\ spawnAttempts = 0 /\ spawned = 0)

\* C4 amended: with the binary absent ensureAuth() spawns no process; it
\* fails with EngineNotInstalled when no credential is present at the call,
\* and returns success without looking for the binary when one is.
C4_NotInstalled ==
  (EnsureAuthDone /\ ~force /\ ~installed) =>
    /\ spawnAttempts = 0
    /\ spawned = 0
    /\ result = IF credAtCall THEN "ok" ELSE "EngineNotInstalled"

C4_Witness ==
  /\ EnsureAuthDone /\ ~force /\ ~installed /\ ~credAtCall
  /\ result = "EngineNotInstalled" /\ spawnAttempts = 0

\* C5: once the login subprocess was launched and has exited (any exit
\* code), ensureAuth returns success and the credential file exists: an
\* empty JSON object if the tool left no file, else exactly what the tool
\* left.
C5_PlaceholderAfterLogin ==
  (EnsureAuthDone /\ spawned = 1) =>
    /\ result = "ok"
    /\ authPath \in DOMAIN files
    /\ (toolLeft = Absent => files[authPath] = EmptyObject)
    /\ (toolLeft # Absent => files[authPath] = toolLeft)

C5_Witness ==
  /\ EnsureAuthDone /\ spawned = 1 /\ exitCode = 1
  /\ toolLeft = Absent /\ fileAt(authPath) = EmptyObject /\ result = "ok"

\* The location whose removal takes the credential file with it.
credentialTarget ==
  IF resolveOpenCodeHome # Unset THEN resolveOpenCodeHome ELSE resolveOpenCodeDataDir

----------------------------------------------------------------------------
(* Workspace root resolver *)

WORKSPACE_DIRNAME == ".clawtutor"
LEGACY_WORKSPACE_DIRNAME == ".codemachine"

existsSync(p) == p \in dirs \/ p \in DOMAIN files

\* Variant: the legacy directory is preferred over the current one.
resolveWorkspaceRoot_legacyFirst(cwd) ==
  LET clawtutorRoot == join(cwd, WORKSPACE_DIRNAME)
      legacyRoot == join(cwd, LEGACY_WORKSPACE_DIRNAME)
  IN IF existsSync(legacyRoot) THEN legacyRoot ELSE clawtutorRoot

resolveWorkspaceRoot(cwd) ==
  LET clawtutorRoot == join(cwd, WORKSPACE_DIRNAME)
      legacyRoot == join(cwd, LEGACY_WORKSPACE_DIRNAME)
  IN IF existsSync(clawtutorRoot) THEN clawtutorRoot
     ELSE IF existsSync(legacyRoot) THEN legacyRoot
     ELSE clawtutorRoot

----------------------------------------------------------------------------
(* Boot: early cwd, --dir parsing, home-directory guard *)

ProjDir == <<"proj">>
LinkDir == <<"link">>      \* a symbolic link to the home directory
NewDir == <<"new">>        \* a directory that does not exist yet

Flag(t) == [t |-> t, p |-> <<>>]
DirEq(p) == [t |-> "--dir=", p |-> p]
Arg(p) == [t |-> "arg", p |-> p]

\* The text of a token read as a path.
tokenPath(tok) == IF tok.t = "arg" THEN tok.p ELSE <<tok.t>> \o tok.p

\* realpathSync: resolves the link, throws when the target does not exist.
linkTarget(p) == IF p = LinkDir THEN HomeDir ELSE p

realpathThrows(p) == linkTarget(p) \notin dirs

realpathSync(p) == linkTarget(p)

homedir == HomeDir

\* line 8
earlyCwd == IF IsSet(procEnvCwd) THEN procEnvCwd ELSE procCwd

\* line 55: args.findIndex(arg => arg === '--dir' || arg === '-d'), 0 if none
dirArgIndex ==
  LET hits == {i \in 1..Len(args) : args[i].t \in {"--dir", "-d"}}
  IN IF hits = {} THEN 0 ELSE CHOOSE i \in hits : \A j \in hits : i <= j

\* line 56: Unset stands for null / undefined
explicitDir ==
  IF dirArgIndex # 0 /\ dirArgIndex + 1 <= Len(args)
  THEN tokenPath(args[dirArgIndex + 1])
  ELSE Unset

\* line 57
targetCwd == IF IsSet(explicitDir) THEN explicitDir ELSE earlyCwd

\* Variant: the paths are compared as given, without canonicalization.
guardBlocks_noRealpath == targetCwd = homedir

\* lines 61-91: TRUE when the guard calls process.exit(1)
guardBlocks ==
  IF realpathThrows(targetCwd) \/ realpathThrows(homedir)
  THEN FALSE
  ELSE realpathSync(targetCwd) = realpathSync(homedir)

HomeGuard ==
  /\ bootPc = "guard"
  /\ IF guardBlocks
     THEN /\ exitStatus' = 1
          /\ bootPc' = "exited"
     ELSE /\ bootPc' = "cli"
          /\ UNCHANGED exitStatus
  /\ UNCHANGED <<authVars, cwdEnv, procEnvCwd, procCwd, args, tuiStarted, bgPc,
                 bgCwd, cmRoot, rootAbsent, bootstraps, bootstrapped, syncIdx,
                 syncing, synced, logged, syncThrew,
                 runs>>

----------------------------------------------------------------------------
(* runClawtutorCli: option parsing and the default action *)

\* commander's value of options.dir: the last -d/--dir occurrence wins, the
\* default is process.cwd() (line 160).
RECURSIVE optionsDirFrom(_, _)
optionsDirFrom(i, acc) ==
  IF i > Len(args) THEN acc
  ELSE IF args[i].t \in {"--dir", "-d"} /\ i + 1 <= Len(args)
       THEN optionsDirFrom(i + 2, tokenPath(args[i + 1]))
       ELSE IF args[i].t = "--dir="
            THEN optionsDirFrom(i + 1, args[i].p)
            ELSE optionsDirFrom(i + 1, acc)

optionsDir == optionsDirFrom(1, procCwd)

\* line 165
actionCwd == IF IsSet(optionsDir) THEN optionsDir ELSE procCwd

\* Variant: the bootstrap is not guarded by the existence check.
initializeInBackgroundStart_noGuard(cwd) ==
  /\ bgCwd' = cwd
  /\ cmRoot' = resolveWorkspaceRoot(cwd)
  /\ rootAbsent' = ~existsSync(cmRoot')
  /\ bgPc' = "bootstrap"

\* lines 121-124: the synchronous head of initializeInBackground
initializeInBackgroundStart(cwd) ==
  /\ bgCwd' = cwd
  /\ cmRoot' = resolveWorkspaceRoot(cwd)
  /\ rootAbsent' = ~existsSync(cmRoot')
  /\ bgPc' = IF ~existsSync(cmRoot') THEN "bootstrap" ELSE "registry"

\* lines 162-178: the action handler up to the launcher import
ActionHandler ==
  /\ bootPc = "cli"
  /\ procEnvCwd' = actionCwd
  /\ initializeInBackgroundStart(actionCwd)
  /\ bootPc' = "launch"
  /\ UNCHANGED <<authVars, cwdEnv, procCwd, args, exitStatus, tuiStarted,
                 bootstraps, bootstrapped, syncIdx, syncing, synced, logged, syncThrew,
                 runs>>

\* Variant: the launcher is imported only once the initializer has settled.
ImportLauncher_awaitsInit ==
  /\ bootPc = "launch"
  /\ bgPc \in {"done", "caught"}
  /\ tuiStarted' = TRUE
  /\ bootPc' = "tui"
  /\ UNCHANGED <<authVars, cwdEnv, procEnvCwd, procCwd, args, exitStatus, bgPc,
                 bgCwd, cmRoot, rootAbsent, bootstraps, bootstrapped, syncIdx,
                 syncing, synced, logged, syncThrew,
                 runs>>

\* lines 183-186: import the launcher and call startTUI()
ImportLauncher ==
  /\ bootPc = "launch"
  /\ tuiStarted' = TRUE
  /\ bootPc' = "tui"
  /\ UNCHANGED <<authVars, cwdEnv, procEnvCwd, procCwd, args, exitStatus, bgPc,
                 bgCwd, cmRoot, rootAbsent, bootstraps, bootstrapped, syncIdx,
                 syncing, synced, logged, syncThrew,
                 runs>>

TuiOutcomes == {"ok", "throw", "exit"}

\* lines 186-191 and 253-257: startTUI() resolves, rejects (exitCode = 1 in
\* the top-level catch) or the /exit command calls process.exit(0)
TuiEnds(outcome) ==
  /\ bootPc = "tui"
  /\ CASE outcome = "ok" -> bootPc' = "done" /\ UNCHANGED exitStatus
       [] outcome = "throw" -> bootPc' = "done" /\ exitStatus' = 1
       [] OTHER -> bootPc' = "exited" /\ exitStatus' = 0
  /\ UNCHANGED <<authVars, cwdEnv, procEnvCwd, procCwd, args, tuiStarted, bgPc,
                 bgCwd, cmRoot, rootAbsent, bootstraps, bootstrapped, syncIdx,
                 syncing, synced, logged, syncThrew,
                 runs>>

----------------------------------------------------------------------------
(* initializeInBackground after its first suspension point *)

MaxRuns == 2

\* The first engine at or after index i that exposes syncConfig, 0 if none.
nextSyncFrom(i) ==
  LET js == {j \in i..Len(Engines) : Engines[j].sync}
  IN IF js = {} THEN 0 ELSE CHOOSE j \in js : \A k \in js : j <= k

RECURSIVE syncOrderFrom(_)
\* The engines exposing syncConfig at or after index i, in registration order.
syncOrderFrom(i) ==
  LET j == nextSyncFrom(i)
  IN IF j = 0 THEN <<>> ELSE <<j>> \o syncOrderFrom(j + 1)

processAlive == bootPc # "exited"

BootstrapOutcomes == {"ok", "throw", "partial"}

\* lines 125-131: import the workspace service, ensureWorkspaceStructure({cwd})
BgBootstrap(outcome) ==
  /\ processAlive
  /\ bgPc = "bootstrap"
  /\ bootstraps' = bootstraps + 1
  /\ CASE outcome = "ok" ->
            /\ dirs' = dirs \cup Prefixes(join(bgCwd, WORKSPACE_DIRNAME))
            /\ bootstrapped' = bootstrapped + 1
            /\ bgPc' = "registry"
       [] outcome = "partial" ->
            /\ dirs' = dirs \cup Prefixes(join(bgCwd, WORKSPACE_DIRNAME))
            /\ bgPc' = "rejected"
            /\ UNCHANGED bootstrapped
       [] OTHER ->
            /\ bgPc' = "rejected"
            /\ UNCHANGED <<dirs, bootstrapped>>
  /\ UNCHANGED <<authRest, cwdEnv, procEnvCwd, procCwd, args, bootPc, exitStatus,
                 tuiStarted, bgCwd, cmRoot, rootAbsent, syncIdx, syncing,
                 synced, logged, syncThrew,
                 runs>>

\* The loop written with Promise.all over the remaining engines.
syncLoopFrom_parallel(i) ==
  LET js == {j \in i..Len(Engines) : Engines[j].sync} IN
    IF js = {}
    THEN /\ bgPc' = "done"
         /\ syncIdx' = Len(Engines) + 1
         /\ syncing' = {}
         /\ UNCHANGED synced
    ELSE /\ bgPc' = "syncing"
         /\ syncIdx' = Len(Engines)
         /\ syncing' = js
         /\ synced' = synced \o syncOrderFrom(i)

\* The loop of lines 140-144 run from index i up to its next await.
syncLoopFrom(i) ==
  LET j == nextSyncFrom(i) IN
    IF j = 0
    THEN /\ bgPc' = "done"
         /\ syncIdx' = Len(Engines) + 1
         /\ syncing' = {}
         /\ UNCHANGED synced
    ELSE /\ bgPc' = "syncing"
         /\ syncIdx' = j
         /\ syncing' = {j}
         /\ synced' = Append(synced, j)

\* lines 133-142: import the registry, getAll(), enter the loop
BgRegistry ==
  /\ processAlive
  /\ bgPc = "registry"
  /\ syncLoopFrom(1)
  /\ UNCHANGED <<authVars, cwdEnv, procEnvCwd, procCwd, args, bootPc, exitStatus,
                 tuiStarted, bgCwd, cmRoot, rootAbsent, bootstraps,
                 bootstrapped, logged, syncThrew,
                 runs>>

SyncOutcomes == {"ok", "throw"}

\* Variant: a failing syncConfig is skipped and the loop goes on.
BgSyncEnds_continues(outcome) ==
  /\ processAlive
  /\ bgPc = "syncing"
  /\ IF outcome = "ok"
     THEN /\ syncLoopFrom(syncIdx + 1)
          /\ UNCHANGED syncThrew
     ELSE /\ syncLoopFrom(syncIdx + 1)
          /\ syncThrew' = syncIdx
  /\ UNCHANGED <<authVars, cwdEnv, procEnvCwd, procCwd, args, bootPc, exitStatus,
                 tuiStarted, bgCwd, cmRoot, rootAbsent, bootstraps,
                 bootstrapped, logged, runs>>

\* line 142: the awaited syncConfig settles
BgSyncEnds(outcome) ==
  /\ processAlive
  /\ bgPc = "syncing"
  /\ IF outcome = "ok"
     THEN /\ syncLoopFrom(syncIdx + 1)
          /\ UNCHANGED syncThrew
     ELSE /\ bgPc' = "rejected"
          /\ syncing' = {}
          /\ syncThrew' = syncIdx
          /\ UNCHANGED <<syncIdx, synced>>
  /\ UNCHANGED <<authVars, cwdEnv, procEnvCwd, procCwd, args, bootPc, exitStatus,
                 tuiStarted, bgCwd, cmRoot, rootAbsent, bootstraps,
                 bootstrapped, logged, runs>>

\* lines 175-178: the .catch handler of the fire-and-forget call
BgCatch ==
  /\ processAlive
  /\ bgPc = "rejected"
  /\ logged' = logged + 1
  /\ bgPc' = "caught"
  /\ UNCHANGED <<authVars, cwdEnv, procEnvCwd, procCwd, args, bootPc, exitStatus,
                 tuiStarted, bgCwd, cmRoot, rootAbsent, bootstraps,
                 bootstrapped, syncIdx, syncing, synced, syncThrew,
                 runs>>

\* The process is over (process.exit, or the main flow and the initializer
\* have both settled) and the CLI is started again with the same inputs.
Restart ==
  /\ runs < MaxRuns
  /\ \/ bootPc = "exited"
     \/ bootPc = "done" /\ bgPc \in {"done", "caught"}
  /\ runs' = runs + 1
  /\ procEnvCwd' = cwdEnv
  /\ bootPc' = "guard"
  /\ exitStatus' = 0
  /\ tuiStarted' = FALSE
  /\ bgPc' = "none"
  /\ bgCwd' = <<>>
  /\ cmRoot' = <<>>
  /\ rootAbsent' = FALSE
  /\ bootstraps' = 0
  /\ syncIdx' = 0
  /\ syncing' = {}
  /\ synced' = <<>>
  /\ logged' = 0
  /\ syncThrew' = 0
  /\ UNCHANGED <<authVars, cwdEnv, procCwd, args, bootstrapped>>

----------------------------------------------------------------------------
(* Specification of the CLI entry *)

CwdEnvValues == {Unset, EmptyStr, ProjDir, HomeDir}

ProcCwdValues == {ProjDir, HomeDir}

ArgLists ==
  {<<>>,
   <<Flag("--dir"), Arg(ProjDir)>>,
   <<Flag("--dir"), Arg(LinkDir)>>,
   <<Flag("--dir"), Arg(NewDir)>>,
   <<Flag("-d"), Arg(HomeDir)>>,
   <<DirEq(LinkDir)>>,
   <<Flag("--dir"), Arg(ProjDir), Flag("-d"), Arg(HomeDir)>>}

WorkspaceDirs ==
  {join(HomeDir, WORKSPACE_DIRNAME), join(ProjDir, WORKSPACE_DIRNAME),
   join(ProjDir, LEGACY_WORKSPACE_DIRNAME)}

InitBoot ==
  /\ env = [OPENCODE_HOME |-> Unset, XDG_DATA_HOME |-> Unset,
            XDG_CONFIG_HOME |-> Unset, XDG_CACHE_HOME |-> Unset]
  /\ installed = FALSE
  /\ files = <<>>
  /\ pc = "idle"
  /\ force = FALSE
  /\ result = "none"
  /\ spawnAttempts = 0
  /\ spawned = 0
  /\ exitCode = 0
  /\ credAtCall = FALSE
  /\ toolLeft = Absent
  /\ rmFailed = {}
  /\ menu = "none"
  /\ calls = 0
  /\ lastOp = "none"
  /\ cmd = NoCommand
  /\ cwdEnv \in CwdEnvValues
  /\ procEnvCwd = cwdEnv
  /\ procCwd \in ProcCwdValues
  /\ args \in ArgLists
  /\ \E homeExists \in BOOLEAN, ws \in SUBSET WorkspaceDirs :
       /\ procCwd = HomeDir => homeExists
       /\ \A w \in ws : Parent(w) = HomeDir => homeExists
       /\ dirs = {ProjDir} \cup (IF homeExists THEN {HomeDir} ELSE {}) \cup ws
  /\ bootPc = "guard"
  /\ exitStatus = 0
  /\ tuiStarted = FALSE
  /\ bgPc = "none"
  /\ bgCwd = <<>>
  /\ cmRoot = <<>>
  /\ rootAbsent = FALSE
  /\ bootstraps = 0
  /\ bootstrapped = 0
  /\ syncIdx = 0
  /\ syncing = {}
  /\ synced = <<>>
  /\ logged = 0
  /\ syncThrew = 0
  /\ runs = 1

NextBoot ==
  \/ HomeGuard
  \/ ActionHandler
  \/ ImportLauncher
  \/ \E o \in TuiOutcomes : TuiEnds(o)
  \/ \E o \in BootstrapOutcomes : BgBootstrap(o)
  \/ BgRegistry
  \/ \E o \in SyncOutcomes : BgSyncEnds(o)
  \/ BgCatch
  \/ Restart

SpecBoot == InitBoot /\ [][NextBoot]_vars

----------------------------------------------------------------------------
(* Properties of the CLI entry *)

\* The step in which initializeInBackground resolves the workspace root.
ResolveStep == bootPc = "cli" /\ bootPc' = "launch"

\* C7: resolveWorkspaceRoot returns <cwd>/.clawtutor if it exists, else
\* <cwd>/.codemachine if it exists, else <cwd>/.clawtutor; it always returns
\* one of the two paths and leaves the filesystem as it was.
C7_ResolveRoot ==
  [][ResolveStep =>
       /\ cmRoot' = (IF join(bgCwd', WORKSPACE_DIRNAME) \in dirs
                     THEN join(bgCwd', WORKSPACE_DIRNAME)
                     ELSE IF join(bgCwd', LEGACY_WORKSPACE_DIRNAME) \in dirs
                          THEN join(bgCwd', LEGACY_WORKSPACE_DIRNAME)
                          ELSE join(bgCwd', WORKSPACE_DIRNAME))
       /\ dirs' = dirs
       /\ files' = files]_vars

C7_Witness ==
  /\ bootPc = "launch"
  /\ cmRoot = join(bgCwd, LEGACY_WORKSPACE_DIRNAME)
  /\ join(bgCwd, WORKSPACE_DIRNAME) \notin dirs

\* Both paths canonicalize and their canonical paths are equal.
CanonicalEqual ==
  /\ linkTarget(targetCwd) \in dirs
  /\ linkTarget(HomeDir) \in dirs
  /\ linkTarget(targetCwd) = linkTarget(HomeDir)

\* C8: the home-directory guard ends the process with a non-zero status
\* exactly when the target directory and the home directory both
\* canonicalize and are equal; otherwise (also when a canonicalization
\* fails) startup continues with the exit status untouched.
C8_HomeGuard ==
  [][bootPc = "guard" =>
       /\ (bootPc' = "exited" /\ exitStatus' # 0) <=> CanonicalEqual
       /\ ~CanonicalEqual => (bootPc' = "cli" /\ exitStatus' = exitStatus)]_vars

C8_Witness ==
  /\ bootPc = "exited" /\ exitStatus = 1 /\ ~tuiStarted /\ bgPc = "none"
  /\ targetCwd = LinkDir

BgMoves == bgPc # "none" /\ bgPc' # bgPc /\ runs' = runs

\* C10: whatever state the initializer is in, the launcher import and
\* startTUI() can proceed; no step of the initializer changes the exit
\* status or the main flow; a rejection is handled by the catch handler,
\* which logs it once.
C10_FireAndForget ==
  /\ [](bootPc = "launch" => ENABLED ImportLauncher)
  /\ []((bgPc = "rejected" /\ processAlive) => ENABLED BgCatch)
  /\ [](bgPc = "caught" => logged = 1)
  /\ [][BgMoves => (exitStatus' = exitStatus /\ bootPc' = bootPc
                    /\ tuiStarted' = tuiStarted)]_vars

C10_Witness ==
  /\ bootPc = "tui" /\ tuiStarted
  /\ bgPc = "caught" /\ logged = 1 /\ exitStatus = 0

----------------------------------------------------------------------------
(* Properties of the command handlers *)

\* C11: auth login and auth logout given a provider id the registry does
\* not hold print a message and return; they never throw.
C11_UnknownProvider ==
  (cmd.op \in {"handleLogin", "handleLogout"} /\ ~registryHas(cmd.provider)) =>
    commandOutcome = "returned"

\* C13: after ensureAuth ran the login flow and wrote the empty placeholder,
\* with the binary present the credential probe reports a credential and
\* nextAuthMenuAction returns 'logout' (so a following ensureAuth() returns
\* early instead of launching the login subprocess again).
C13_PlaceholderCounts ==
  (/\ EnsureAuthDone /\ result = "ok" /\ spawned = 1
   /\ toolLeft = Absent /\ fileAt(authPath) = EmptyObject
   /\ installed) =>
    /\ hasOpenCodeCredential("opencode")
    /\ nextAuthMenuActionValue = "logout"

----------------------------------------------------------------------------
(* Properties of the guard and the initializer together *)

\* C14: the background initializer is never started on a cwd that
\* canonicalizes to the home directory (the home-directory guard has ended
\* the process first), so no workspace is bootstrapped in the home directory.
C14_NeverInHome ==
  bgPc # "none" =>
    ~(/\ ~realpathThrows(bgCwd)
      /\ ~realpathThrows(homedir)
      /\ realpathSync(bgCwd) = realpathSync(homedir))

----------------------------------------------------------------------------
(* Properties of the engine config sync *)

\* C12: syncConfig is invoked for exactly the registered engines exposing it,
\* in registration order and one at a time: the invocations so far are a
\* prefix of that order (all of it once the pass completes), at most one is
\* in progress (the last one started), and none starts before a needed
\* bootstrap has completed.
C12_SequentialSync ==
  /\ Len(synced) <= Len(syncOrderFrom(1))
  /\ \A k \in 1..Len(synced) : synced[k] = syncOrderFrom(1)[k]
  /\ bgPc = "done" => synced = syncOrderFrom(1)
  /\ Cardinality(syncing) <= 1
  /\ syncing # {} => bgPc = "syncing" /\ syncing = {synced[Len(synced)]}
  /\ bgPc = "syncing" => syncing # {}
  /\ synced # <<>> => bgPc \in {"syncing", "done", "rejected", "caught"}
  /\ (synced # <<>> /\ rootAbsent) =>
       (bootstraps = 1 /\ existsSync(join(bgCwd, WORKSPACE_DIRNAME)))

C12_Witness ==
  /\ bgPc = "done"
  /\ rootAbsent
  /\ bootstraps = 1
  /\ Len(synced) = 2
  /\ syncing = {}

\* C15: when an engine's syncConfig throws, the pass stops there: the
\* invocations made are exactly those of the engines exposing syncConfig up
\* to the failing one, in order and none still in progress, no later engine
\* is invoked, and the rejection is reported once by the catch handler.
C15_SyncFailureStops ==
  syncThrew # 0 =>
    /\ Engines[syncThrew].sync
    /\ \A k \in 1..Len(synced) : synced[k] <= syncThrew
    /\ \A j \in 1..syncThrew :
         Engines[j].sync => \E k \in 1..Len(synced) : synced[k] = j
    /\ synced[Len(synced)] = syncThrew
    /\ syncing = {}
    /\ bgPc \in {"rejected", "caught"}
    /\ logged = (IF bgPc = "caught" THEN 1 ELSE 0)
    /\ (bgPc = "rejected" /\ processAlive) => ENABLED BgCatch

C15_Witness ==
  /\ syncThrew = 1
  /\ nextSyncFrom(2) # 0
  /\ synced = <<1>>
  /\ bgPc = "caught"
  /\ logged = 1

====
